---- MODULE Spec2Model ----
(***************************************************************************)
(* Model of mtstnt/runner: run() in src/main.go drives one sandbox         *)
(* container through the container runtime (image query / build, create,   *)
(* copy, start, wait, logs, remove).  Every runtime call is a step of its  *)
(* own, with the outcome (success or error) chosen by the runtime.         *)
(*                                                                         *)
(*   Spec      one invocation of run()                                     *)
(*   LiveSpec  Spec with weak fairness of the steps of run()               *)
(*   SpecSeq   invocations one after another on the same runtime           *)
(*   SpecTwo   the image provisioning of two concurrent invocations        *)
(***************************************************************************)
EXTENDS Integers, Sequences, FiniteSets, TLC

\* ---- bounds ------------------------------------------------------------
MaxLen == 2        \* longest file content, in bytes
MaxImages == 2     \* most images tagged "runner" in the runtime at start

\* ---- data --------------------------------------------------------------
Byte == {0}
Contents == UNION {[1..n -> Byte] : n \in 0..MaxLen}
\* examples/python as os.ReadDir lists it: entries sorted by name, a
\* directory entry carrying its own listing
SourceRoot == <<"examples/python">>
FileEntry(name, data) == [name |-> name, isDir |-> FALSE, data |-> data, sub |-> <<>>]
DirEntry(name, sub) == [name |-> name, isDir |-> TRUE, data |-> <<>>, sub |-> sub]
OptFile(name) == {<<>>} \cup {<<FileEntry(name, c)>> : c \in Contents}
OptDir(name) == {<<>>} \cup {<<DirEntry(name, f)>> : f \in OptFile("main.py")}
Trees == {d \o m \o t : d \in OptDir("hello"), m \in OptFile("main.py"), t \in OptFile("timer.sh")}
ImageIDs == <<"imgA", "imgB", "imgC">>
BuiltImage == "imgBuilt"
Mode == 511        \* 0777
MemoryLimit == 10000000
Procs == {1, 2}    \* two invocations of run() against one runtime

NoArchive == [entries |-> <<>>, closed |-> FALSE]

\* every order in which a Go map range can visit the keys
Perms(S) == {s \in [1..Cardinality(S) -> S] : \A i, j \in 1..Cardinality(S) : s[i] = s[j] => i = j}

VARIABLES
  pc,            \* position of run()
  err,           \* run()'s function-scope variable err
  ret,           \* value run() returned: "pending" until it returns
  retAfter,      \* error of the enclosing if, returned after disposeContainer
  panicVal,      \* value run() panicked with, "none" otherwise
  fault,         \* error of the first failing step, "none" otherwise
  signal,        \* which ContainerWait channel the select received from
  images,        \* runtime: images matching reference=runner, in runtime order
  buildPending,  \* runtime: a submitted build has not finished yet
  result,        \* first ImageList result
  r,             \* second ImageList result
  imageID,       \* run()'s imageID
  createImage,   \* image the ContainerCreate request carried
  containers,    \* runtime: existing containers
  containerID,   \* run()'s containerID
  calls,         \* runtime calls issued so far, in order
  tree,          \* file system: the listing of examples/python
  loadErr,       \* error loadFilesRecursive returned: "none" before the load
  sourceFiles,   \* the bundle: path -> content
  harnessFile,   \* content of runner/timer.sh
  harness,       \* outcome of writeFileToTarWriter for the harness
  content,       \* archive returned by createTarfileOfCode
  printed,       \* STDOUT / STDERR were printed
  createReqs,    \* the ContainerCreate requests issued, in order
  removeArgs,    \* the container IDs ContainerRemove was called with, in order
  inv            \* image provisioning of two concurrent invocations (SpecTwo)

vars == <<pc, err, ret, retAfter, panicVal, fault, signal, images, buildPending,
          result, r, imageID, createImage, containers, containerID, calls,
          tree, loadErr, sourceFiles, harnessFile, harness, content, printed,
          createReqs, removeArgs, inv>>

rtVars == <<images, buildPending, containers>>
imgVars == <<result, r, imageID, createImage>>
tarVars == <<tree, loadErr, sourceFiles, harnessFile, harness, content>>
reqVars == <<createReqs, removeArgs>>

\* an invocation of SpecTwo about to issue its first ImageList
InvStart ==
  [pc |-> "list1", result |-> <<>>, r |-> <<>>, imageID |-> "", builds |-> 0, ret |-> "pending"]

Finished == pc \in {"returned", "panicked"}
Issued(c) == \E i \in 1..Len(calls) : calls[i] = c
Count(c) == Cardinality({i \in 1..Len(calls) : calls[i] = c})

Init ==
  /\ pc = "client"
  /\ err = "nil"
  /\ ret = "pending"
  /\ retAfter = "nil"
  /\ panicVal = "none"
  /\ fault = "none"
  /\ signal = "none"
  /\ \E n \in 0..MaxImages : images = SubSeq(ImageIDs, 1, n)
  /\ buildPending = FALSE
  /\ result = <<>>
  /\ r = <<>>
  /\ imageID = ""
  /\ createImage = ""
  /\ containers = {}
  /\ containerID = ""
  /\ calls = <<>>
  /\ tree \in Trees
  /\ loadErr = "none"
  /\ sourceFiles = <<>>
  /\ harnessFile \in Contents
  /\ harness = "none"
  /\ content = NoArchive
  /\ printed = FALSE
  /\ createReqs = <<>>
  /\ removeArgs = <<>>
  /\ inv = [p \in Procs |-> InvStart]

ReturnNil(e) ==
  /\ pc' = "returned"
  /\ ret' = "nil"

\* `return e` straight out of run()
Return(e) ==
  /\ pc' = "returned"
  /\ ret' = e

\* a failing step records its error as run()'s first fault
Fail(e) == fault' = IF fault = "none" THEN e ELSE fault

\* ---- client construction ------------------------------------------------
NewClient ==
  /\ pc = "client"
  /\ \/ /\ err' = "nil"
        /\ pc' = "list1"
        /\ UNCHANGED <<ret, fault>>
     \/ /\ err' = "errClient"
        /\ Fail("errClient")
        /\ Return("errClient")
  /\ UNCHANGED <<retAfter, panicVal, signal, rtVars, imgVars, containerID, calls, tarVars, printed,
                 reqVars, inv>>

\* ---- image provisioning -------------------------------------------------
NeedsBuildAlways(res) == TRUE
NeedsBuild(res) == Len(res) = 0

FirstID(res) == res[1]

ImageList1 ==
  /\ pc = "list1"
  /\ calls' = Append(calls, "ImageList")
  /\ \/ /\ err' = "nil"
        /\ result' = images
        /\ IF NeedsBuild(images)
             THEN /\ pc' = "tar"
                  /\ UNCHANGED imageID
             ELSE /\ pc' = "create"
                  /\ imageID' = FirstID(images)
        /\ UNCHANGED <<ret, fault>>
     \/ /\ err' = "errList1"
        /\ Fail("errList1")
        /\ Return("errList1")
        /\ UNCHANGED <<result, imageID>>
  /\ UNCHANGED <<retAfter, panicVal, signal, rtVars, r, createImage, containerID, tarVars, printed,
                 reqVars, inv>>

\* archive.TarWithOptions("runner/", ...): the build context
TarContext ==
  /\ pc = "tar"
  /\ \/ /\ pc' = "build"
        /\ UNCHANGED <<ret, fault>>
     \/ /\ Fail("errTar")
        /\ Return("errTar")
  /\ UNCHANGED <<err, retAfter, panicVal, signal, rtVars, imgVars, containerID, calls, tarVars, printed,
                 reqVars, inv>>

\* ImageBuild returns once the runtime accepted the request; the image
\* becomes queryable when the build finishes (BuildCompletes).
ImageBuild ==
  /\ pc = "build"
  /\ calls' = Append(calls, "ImageBuild")
  /\ \/ /\ buildPending' = TRUE
        /\ pc' = "list2"
        /\ UNCHANGED <<ret, fault>>
     \/ /\ Fail("errBuild")
        /\ Return("errBuild")
        /\ UNCHANGED buildPending
  /\ UNCHANGED <<err, retAfter, panicVal, signal, images, containers, imgVars, containerID, tarVars, printed,
                 reqVars, inv>>

BuildCompletes ==
  /\ buildPending
  /\ buildPending' = FALSE
  /\ images' = Append(images, BuiltImage)
  /\ UNCHANGED <<pc, err, ret, retAfter, panicVal, fault, signal, containers, imgVars,
                 containerID, calls, tarVars, printed,
                 reqVars, inv>>

\* r[0].ID on an empty r is an index-out-of-range panic
ImageList2 ==
  /\ pc = "list2"
  /\ calls' = Append(calls, "ImageList")
  /\ \/ /\ r' = images
        /\ IF Len(images) = 0
             THEN /\ pc' = "panicked"
                  /\ panicVal' = "indexOutOfRange"
                  /\ Fail("indexOutOfRange")
                  /\ UNCHANGED <<imageID, ret>>
             ELSE /\ pc' = "create"
                  /\ imageID' = FirstID(images)
                  /\ UNCHANGED <<panicVal, ret, fault>>
     \/ /\ Fail("errList2")
        /\ Return("errList2")
        /\ UNCHANGED <<r, imageID, panicVal>>
  /\ UNCHANGED <<err, retAfter, signal, rtVars, result, createImage, containerID, tarVars, printed,
                 reqVars, inv>>

\* ---- container creation -------------------------------------------------
\* the request of run(): the same on every path that reaches it
CreateRequestNetworked(img) ==
  [Image |-> img, NetworkDisabled |-> FALSE, WorkingDir |-> "/code",
   Cmd |-> <<"sh", "./timer.sh">>, Memory |-> MemoryLimit, Devices |-> <<>>,
   Privileged |-> FALSE, Name |-> "runner"]
CreateRequest(img) ==
  [Image |-> img, NetworkDisabled |-> TRUE, WorkingDir |-> "/code",
   Cmd |-> <<"sh", "./timer.sh">>, Memory |-> MemoryLimit, Devices |-> <<>>,
   Privileged |-> FALSE, Name |-> "runner"]

\* every container of the runtime was created by run() under the name
\* "runner": the runtime accepts the name only while none exists
NameTaken == containers # {}
CreateError == IF NameTaken THEN "errConflict" ELSE "errCreate"

ContainerCreate ==
  /\ pc = "create"
  /\ calls' = Append(calls, "ContainerCreate")
  /\ createImage' = imageID
  /\ createReqs' = Append(createReqs, CreateRequest(imageID))
  /\ \/ /\ ~NameTaken
        /\ err' = "nil"
        /\ containerID' = "c1"
        /\ containers' = containers \cup {"c1"}
        /\ pc' = "archive"
        /\ UNCHANGED <<ret, fault>>
     \/ /\ err' = CreateError
        /\ Fail(CreateError)
        /\ Return(CreateError)
        /\ UNCHANGED <<containerID, containers>>
  /\ UNCHANGED <<retAfter, panicVal, signal, images, buildPending, result, r, imageID, tarVars, printed,
                 removeArgs, inv>>

\* ---- loading the bundle from the source tree -----------------------------
\* mapRef[entry.Name()] = string(f): the key is the entry's base name, the
\* path it was read from plays no part
MapSet(mapRef, key, name, data) ==
  [x \in DOMAIN mapRef \cup {name} |-> IF x = name THEN data ELSE mapRef[x]]

\* loadFilesRecursive(pathname, mapRef) on the listing dir of pathname; bad
\* holds the paths whose os.ReadDir / os.ReadFile fails.  LoadEntries is the
\* range loop from entry i on.
RECURSIVE loadFilesRecursive(_, _, _, _)
RECURSIVE LoadEntries(_, _, _, _, _)
LoadEntries(pathname, dir, i, mapRef, bad) ==
  IF i > Len(dir) THEN [map |-> mapRef, err |-> "nil"]
  ELSE LET entry == dir[i]
           path == Append(pathname, entry.name)
       IN IF entry.isDir
            THEN LET sub == loadFilesRecursive(path, entry.sub, mapRef, bad)
                 IN IF sub.err # "nil" THEN sub
                    ELSE LoadEntries(pathname, dir, i + 1, sub.map, bad)
            ELSE IF path \in bad THEN [map |-> mapRef, err |-> "errReadFile"]
                 ELSE LoadEntries(pathname, dir, i + 1,
                                  MapSet(mapRef, path, entry.name, entry.data), bad)

loadFilesRecursive(pathname, dir, mapRef, bad) ==
  IF pathname \in bad THEN [map |-> mapRef, err |-> "errReadDir"]
  ELSE LoadEntries(pathname, dir, 1, mapRef, bad)

\* loadSourceFiles: the error of loadFilesRecursive is not looked at; dropped
\* keeps it beside the result for the properties
loadSourceFiles(pathname, dir, bad) ==
  LET l == loadFilesRecursive(pathname, dir, <<>>, bad)
  IN [files |-> l.map, err |-> "nil", dropped |-> l.err]

\* the paths of a listing, directories included
RECURSIVE PathsOf(_, _)
PathsOf(pathname, dir) ==
  {pathname} \cup UNION {IF dir[i].isDir THEN PathsOf(Append(pathname, dir[i].name), dir[i].sub)
                                         ELSE {Append(pathname, dir[i].name)} : i \in 1..Len(dir)}

\* the file system lets every read succeed, or fails the reads of one path
BadChoices(dir) == {{}} \cup {{q} : q \in PathsOf(SourceRoot, dir)}

\* ---- archive of the bundle (archive/tar writing into a bytes.Buffer) -----
NewWriter == [entries |-> <<>>, err |-> FALSE]

Entry(name, size, data) == [name |-> name, mode |-> Mode, size |-> size, data |-> data]

\* tar.Writer.WriteHeader: refuses once the writer is in error; a failed
\* header write leaves the writer in error
WriteHeader(tw, name, size, ok) ==
  IF tw.err THEN [tw |-> tw, err |-> "errTarHeader"]
  ELSE IF ok THEN [tw |-> [tw EXCEPT !.entries = Append(@, Entry(name, size, <<>>))], err |-> "nil"]
  ELSE [tw |-> [tw EXCEPT !.err = TRUE], err |-> "errTarHeader"]

\* tar.Writer.Write: the body of the entry opened by the last WriteHeader
Write(tw, data, ok) ==
  IF tw.err THEN [tw |-> tw, err |-> "errTarWrite"]
  ELSE IF ok THEN [tw |-> [tw EXCEPT !.entries[Len(tw.entries)].data = data], err |-> "nil"]
  ELSE [tw |-> [tw EXCEPT !.err = TRUE], err |-> "errTarWrite"]

\* tar.Writer.Close seals the archive unless the writer is in error
Close(tw) == [entries |-> tw.entries, closed |-> ~tw.err]

HarnessOutcomes == {"ok", "errOpen", "errRead", "errTarHeader", "errTarWrite"}

\* writeFileToTarWriter(tw, filename, srcFilename); fc is the content of
\* srcFilename, outcome what the file system and the writer let happen
writeFileToTarWriter(tw, filename, fc, outcome) ==
  IF outcome \in {"errOpen", "errRead"} THEN [tw |-> tw, err |-> outcome]
  ELSE LET h == WriteHeader(tw, filename, Len(fc), outcome # "errTarHeader")
       IN IF h.err # "nil" THEN h
          ELSE Write(h.tw, fc, outcome # "errTarWrite")

\* the range loop of createTarfileOfCode from position i of the visiting
\* order; the step of entry failAt fails with failKind
RECURSIVE WriteEntries(_, _, _, _, _, _)
WriteEntries(tw, files, order, i, failAt, failKind) ==
  IF i > Len(order) THEN [tw |-> tw, err |-> "nil"]
  ELSE LET h == WriteHeader(tw, order[i], Len(files[order[i]]),
                            ~(i = failAt /\ failKind = "errTarHeader"))
       IN IF h.err # "nil" THEN h
          ELSE LET w == Write(h.tw, files[order[i]],
                              ~(i = failAt /\ failKind = "errTarWrite"))
               IN IF w.err # "nil" THEN w
                  ELSE WriteEntries(w.tw, files, order, i + 1, failAt, failKind)

\* the call statement of writeFileToTarWriter in createTarfileOfCode: the
\* writer goes on to the loop, the returned error is not looked at
HarnessStep(hw) == [tw |-> hw.tw, err |-> "nil"]

createTarfileOfCode(files, hfile, marshalOk, outcome, order, failAt, failKind) ==
  IF ~marshalOk
    THEN [content |-> NoArchive, err |-> "errMarshal", harness |-> "none"]
  ELSE LET hw == writeFileToTarWriter(NewWriter, "timer.sh", hfile, outcome)
           hs == HarnessStep(hw)
       IN IF hs.err # "nil"
            THEN [content |-> NoArchive, err |-> hs.err, harness |-> outcome]
          ELSE LET lp == WriteEntries(hs.tw, files, order, 1, failAt, failKind)
               IN IF lp.err # "nil"
                    THEN [content |-> NoArchive, err |-> lp.err, harness |-> outcome]
                    ELSE [content |-> Close(lp.tw), err |-> "nil", harness |-> outcome]

CreateTarfileOfCode ==
  /\ pc = "archive"
  /\ \E bad \in BadChoices(tree) :
     LET ls == loadSourceFiles(SourceRoot, tree, bad) IN
     \E marshalOk \in BOOLEAN, outcome \in HarnessOutcomes,
        order \in Perms(DOMAIN ls.files),
        failAt \in 1..(Cardinality(DOMAIN ls.files) + 1),
        failKind \in {"errTarHeader", "errTarWrite"} :
       LET res == createTarfileOfCode(ls.files, harnessFile, marshalOk, outcome,
                                      order, failAt, failKind)
       IN /\ sourceFiles' = ls.files
          /\ loadErr' = ls.dropped
          /\ err' = res.err
          /\ harness' = res.harness
          /\ content' = res.content
          /\ IF res.err = "nil"
               THEN /\ pc' = "copy"
                    /\ UNCHANGED <<retAfter, fault>>
               ELSE /\ pc' = "dispose"
                    /\ retAfter' = res.err
                    /\ Fail(res.err)
  /\ UNCHANGED <<ret, panicVal, signal, rtVars, imgVars, containerID, calls,
                 tree, harnessFile, printed,
                 reqVars, inv>>

\* ---- inject, start ------------------------------------------------------
CopyToContainer ==
  /\ pc = "copy"
  /\ calls' = Append(calls, "CopyToContainer")
  /\ \/ /\ pc' = "start"
        /\ UNCHANGED <<retAfter, fault>>
     \/ /\ pc' = "dispose"
        /\ retAfter' = "errCopy"
        /\ Fail("errCopy")
  /\ UNCHANGED <<err, ret, panicVal, signal, rtVars, imgVars, containerID, tarVars, printed,
                 reqVars, inv>>

ContainerStart ==
  /\ pc = "start"
  /\ calls' = Append(calls, "ContainerStart")
  /\ \/ /\ pc' = "wait"
        /\ UNCHANGED <<retAfter, fault>>
     \/ /\ pc' = "dispose"
        /\ retAfter' = "errStart"
        /\ Fail("errStart")
  /\ UNCHANGED <<err, ret, panicVal, signal, rtVars, imgVars, containerID, tarVars, printed,
                 reqVars, inv>>

\* ---- wait ---------------------------------------------------------------
ContainerWait ==
  /\ pc = "wait"
  /\ calls' = Append(calls, "ContainerWait")
  /\ pc' = "select"
  /\ UNCHANGED <<err, ret, retAfter, panicVal, fault, signal, rtVars, imgVars, containerID,
                 tarVars, printed,
                 reqVars, inv>>

WaitSignals == {"resultOk", "resultErr", "transportErr"}

\* the value returned on the branch `if c.Error != nil`: run()'s own err
ReturnedOnResultError(outerErr) == outerErr

SelectContinuing ==
  /\ pc = "select"
  /\ \E s \in WaitSignals :
       /\ signal' = s
       /\ CASE s = "resultOk" ->
                 /\ pc' = "logs"
                 /\ UNCHANGED <<ret, fault>>
            [] s = "resultErr" ->
                 /\ pc' = "logs"
                 /\ UNCHANGED <<ret, fault>>
            [] s = "transportErr" ->
                 /\ Fail("errWaitTransport")
                 /\ Return("errWaitTransport")
  /\ UNCHANGED <<err, retAfter, panicVal, rtVars, imgVars, containerID, calls, tarVars, printed,
                 reqVars, inv>>

\* select { case c := <-wr: ...; case err := <-errCh: ... }
Select ==
  /\ pc = "select"
  /\ \E s \in WaitSignals :
       /\ signal' = s
       /\ CASE s = "resultOk" ->
                 /\ pc' = "logs"
                 /\ UNCHANGED <<ret, fault>>
            [] s = "resultErr" ->
                 /\ Fail("errWaitResult")
                 /\ Return(ReturnedOnResultError(err))
            [] s = "transportErr" ->
                 /\ Fail("errWaitTransport")
                 /\ Return("errWaitTransport")
  /\ UNCHANGED <<err, retAfter, panicVal, rtVars, imgVars, containerID, calls, tarVars, printed,
                 reqVars, inv>>

\* ---- output collection --------------------------------------------------
ContainerLogs ==
  /\ pc = "logs"
  /\ calls' = Append(calls, "ContainerLogs")
  /\ \/ /\ err' = "nil"
        /\ pc' = "stdcopy"
        /\ UNCHANGED <<ret, fault>>
     \/ /\ err' = "errLogs"
        /\ Fail("errLogs")
        /\ Return("errLogs")
  /\ UNCHANGED <<retAfter, panicVal, signal, rtVars, imgVars, containerID, tarVars, printed,
                 reqVars, inv>>

\* stdcopy.StdCopy, then the two Println of the buffers
StdCopy ==
  /\ pc = "stdcopy"
  /\ \/ /\ printed' = TRUE
        /\ pc' = "dispose"
        /\ retAfter' = "nil"
        /\ UNCHANGED <<ret, fault>>
     \/ /\ Fail("errStdCopy")
        /\ Return("errStdCopy")
        /\ UNCHANGED <<printed, retAfter>>
  /\ UNCHANGED <<err, panicVal, signal, rtVars, imgVars, containerID, calls, tarVars,
                 reqVars, inv>>

\* ---- disposal -----------------------------------------------------------
\* disposeContainer followed by the `return` of its call site
DisposeArgName(id) == "runner"
DisposeArg(id) == id

DisposeContainer ==
  /\ pc = "dispose"
  /\ calls' = Append(calls, "ContainerRemove")
  /\ removeArgs' = Append(removeArgs, DisposeArg(containerID))
  /\ \/ /\ containers' = containers \ {DisposeArg(containerID)}
        /\ Return(retAfter)
        /\ UNCHANGED <<panicVal, fault>>
     \/ /\ pc' = "panicked"
        /\ panicVal' = "errRemove"
        /\ Fail("errRemove")
        /\ UNCHANGED <<containers, ret>>
  /\ UNCHANGED <<err, retAfter, signal, images, buildPending, imgVars, containerID, tarVars, printed,
                 createReqs, inv>>

Next ==
  \/ NewClient
  \/ ImageList1
  \/ TarContext
  \/ ImageBuild
  \/ BuildCompletes
  \/ ImageList2
  \/ ContainerCreate
  \/ CreateTarfileOfCode
  \/ CopyToContainer
  \/ ContainerStart
  \/ ContainerWait
  \/ Select
  \/ ContainerLogs
  \/ StdCopy
  \/ DisposeContainer

Spec == Init /\ [][Next]_vars

\* every step of run() is eventually taken: each runtime call responds and
\* the runtime delivers one of the two ContainerWait signals
RunStep ==
  \/ NewClient
  \/ ImageList1
  \/ TarContext
  \/ ImageBuild
  \/ ImageList2
  \/ ContainerCreate
  \/ CreateTarfileOfCode
  \/ CopyToContainer
  \/ ContainerStart
  \/ ContainerWait
  \/ Select
  \/ ContainerLogs
  \/ StdCopy
  \/ DisposeContainer

LiveSpec == Init /\ [][Next]_vars /\ WF_vars(RunStep)

\* ---- two invocations provisioning the image concurrently -------------------
\* Two processes run main() against the same runtime; inv[p] is invocation
\* p's position in the provisioning part of run() (from the first ImageList
\* to the point where ContainerCreate is issued), builds its ImageBuild
\* submissions.  The runtime state (images, buildPending) is shared.
oneVars == <<pc, err, ret, retAfter, panicVal, fault, signal, imgVars, containers,
             containerID, calls, tarVars, printed, reqVars>>

InitTwo ==
  /\ Init
  /\ tree = <<>>
  /\ harnessFile = <<>>

TwoImageList1(p) ==
  /\ inv[p].pc = "list1"
  /\ \/ inv' = [inv EXCEPT ![p].result = images,
                            ![p].pc = IF NeedsBuild(images) THEN "tar" ELSE "create",
                            ![p].imageID = IF NeedsBuild(images) THEN @ ELSE FirstID(images)]
     \/ inv' = [inv EXCEPT ![p].pc = "returned", ![p].ret = "errList1"]
  /\ UNCHANGED <<oneVars, images, buildPending>>

TwoTarContext(p) ==
  /\ inv[p].pc = "tar"
  /\ \/ inv' = [inv EXCEPT ![p].pc = "build"]
     \/ inv' = [inv EXCEPT ![p].pc = "returned", ![p].ret = "errTar"]
  /\ UNCHANGED <<oneVars, images, buildPending>>

TwoImageBuild(p) ==
  /\ inv[p].pc = "build"
  /\ \/ /\ inv' = [inv EXCEPT ![p].pc = "list2", ![p].builds = @ + 1]
        /\ buildPending' = TRUE
     \/ /\ inv' = [inv EXCEPT ![p].pc = "returned", ![p].ret = "errBuild", ![p].builds = @ + 1]
        /\ UNCHANGED buildPending
  /\ UNCHANGED <<oneVars, images>>

TwoImageList2Retry(p) ==
  /\ inv[p].pc = "list2"
  /\ \/ inv' = [inv EXCEPT ![p].r = images,
                            ![p].pc = IF Len(images) = 0 THEN "tar" ELSE "create",
                            ![p].imageID = IF Len(images) = 0 THEN @ ELSE FirstID(images)]
     \/ inv' = [inv EXCEPT ![p].pc = "returned", ![p].ret = "errList2"]
  /\ UNCHANGED <<oneVars, images, buildPending>>

TwoImageList2(p) ==
  /\ inv[p].pc = "list2"
  /\ \/ inv' = [inv EXCEPT ![p].r = images,
                            ![p].pc = IF Len(images) = 0 THEN "panicked" ELSE "create",
                            ![p].imageID = IF Len(images) = 0 THEN @ ELSE FirstID(images)]
     \/ inv' = [inv EXCEPT ![p].pc = "returned", ![p].ret = "errList2"]
  /\ UNCHANGED <<oneVars, images, buildPending>>

NextTwo ==
  \/ \E p \in Procs : TwoImageList1(p)
  \/ \E p \in Procs : TwoTarContext(p)
  \/ \E p \in Procs : TwoImageBuild(p)
  \/ \E p \in Procs : TwoImageList2(p)
  \/ BuildCompletes

SpecTwo == InitTwo /\ [][NextTwo]_vars

\* ---- one invocation after another ----------------------------------------
\* main() is started again after the previous process ended: the runtime and
\* the file system keep their state, run() starts afresh
NextRun ==
  /\ Finished
  /\ pc' = "client"
  /\ err' = "nil"
  /\ ret' = "pending"
  /\ retAfter' = "nil"
  /\ panicVal' = "none"
  /\ fault' = "none"
  /\ signal' = "none"
  /\ result' = <<>>
  /\ r' = <<>>
  /\ imageID' = ""
  /\ createImage' = ""
  /\ containerID' = ""
  /\ calls' = <<>>
  /\ loadErr' = "none"
  /\ sourceFiles' = <<>>
  /\ harness' = "none"
  /\ content' = NoArchive
  /\ printed' = FALSE
  /\ createReqs' = <<>>
  /\ removeArgs' = <<>>
  /\ UNCHANGED <<rtVars, tree, harnessFile, inv>>

NextSeq ==
  \/ Next
  \/ NextRun

SpecSeq == Init /\ [][NextSeq]_vars

\* ==== properties ==========================================================
Created == containerID # ""
RemoveIssued == Issued("ContainerRemove")
Disposed == RemoveIssued /\ containerID \notin containers
RemoveFailed == RemoveIssued /\ containerID \in containers
FirstQueryDone == Count("ImageList") >= 1 /\ fault # "errList1"
SecondQueryDone == Count("ImageList") = 2 /\ fault # "errList2"
HarnessFailed == harness \in HarnessOutcomes \ {"ok"}
ArchiveErrors == {"errMarshal", "errTarHeader", "errTarWrite"}

\* C1: whenever run() has returned after ContainerCreate succeeded,
\* ContainerRemove was issued and the container no longer exists.
C1_DisposedBeforeReturn ==
  (pc = "returned" /\ Created) => Disposed

\* C2: when the select received the transport error of ContainerWait, run()
\* returns exactly that error and the container was removed before.
C2_TransportErrorDisposed ==
  (Finished /\ signal = "transportErr") =>
     (pc = "returned" /\ ret = "errWaitTransport" /\ Disposed)

\* C3: when the select received a result carrying an embedded error, run()
\* returns that embedded error (not nil) and the container was disposed.
C3_EmbeddedErrorReturned ==
  (Finished /\ signal = "resultErr") =>
     (pc = "returned" /\ ret = "errWaitResult" /\ Disposed)

\* C4: when ContainerLogs or StdCopy fails after a successful wait, run()
\* disposes the container and then returns that error.
C4_CollectionErrorDisposed ==
  (Finished /\ fault \in {"errLogs", "errStdCopy"}) =>
     (pc = "returned" /\ ret = fault /\ Disposed)

\* C5: when CopyToContainer or ContainerStart fails, run() issues
\* ContainerRemove exactly once, issues no later lifecycle step, and returns
\* the error of the failed step.
C5_InjectStartFailure ==
  (Finished /\ fault \in {"errCopy", "errStart"}) =>
     /\ Count("ContainerRemove") = 1
     /\ (fault = "errCopy" => ~Issued("ContainerStart"))
     /\ ~Issued("ContainerWait")
     /\ ~Issued("ContainerLogs")
     /\ pc = "returned"
     /\ ret = fault

\* C6: when ContainerRemove fails during a disposal triggered by a failing
\* step (archive build, CopyToContainer, ContainerStart), run() still
\* returns and its caller observes the error of that step.
C6_DisposalFailureNotMasking ==
  (Finished /\ RemoveFailed /\ fault \in ArchiveErrors \cup {"errCopy", "errStart"}) =>
     (pc = "returned" /\ ret = fault)

\* C7: when the build was submitted without error and the second ImageList
\* returns an empty list, run() returns an error to its caller, creates no
\* container and does not halt abnormally.
C7_EmptyPostBuildQuery ==
  (SecondQueryDone /\ r = <<>>) =>
     (pc = "returned" /\ ret \notin {"pending", "nil"} /\ ~Issued("ContainerCreate"))

\* C8 as stated: ImageBuild is submitted zero times when the first ImageList
\* returned an image and exactly once in a run whose first ImageList returned
\* none; ContainerCreate carries the first ID of the most recent query.
MostRecentQuery == IF Count("ImageList") = 2 THEN r ELSE result

C8_BuildExactlyOnce ==
  /\ (FirstQueryDone /\ result # <<>>) => Count("ImageBuild") = 0
  /\ (Finished /\ FirstQueryDone /\ result = <<>>) => Count("ImageBuild") = 1
  /\ Issued("ContainerCreate") => createImage = FirstID(MostRecentQuery)

\* C8 amended: ImageBuild is submitted zero times when the first ImageList
\* returned an image; when it returned none, at most once: exactly once as
\* soon as the build context was assembled without error, never if that
\* failed; ContainerCreate carries the first ID of the most recent query.
C8_BuildAtMostOnce ==
  /\ Count("ImageBuild") <= 1
  /\ (FirstQueryDone /\ result # <<>>) => Count("ImageBuild") = 0
  /\ (FirstQueryDone /\ result = <<>> /\ pc \notin {"tar", "build"} /\ fault # "errTar")
        => Count("ImageBuild") = 1
  /\ fault = "errTar" => Count("ImageBuild") = 0
  /\ Issued("ContainerCreate") => createImage = FirstID(MostRecentQuery)

C8_Witness ==
  /\ result = <<>>
  /\ Count("ImageBuild") = 1
  /\ Count("ImageList") = 2
  /\ Issued("ContainerCreate")
  /\ createImage = BuiltImage

\* C9: when reading the harness file or writing its archive entry fails, no
\* archive is injected and no container started, and run() returns that
\* error after disposing the container.
C9_HarnessFailureAborts ==
  HarnessFailed =>
     /\ ~Issued("CopyToContainer")
     /\ ~Issued("ContainerStart")
     /\ pc = "returned" => (ret = harness /\ RemoveIssued)

\* C10: the archive handed to CopyToContainer is closed and holds exactly
\* N+1 entries: one named timer.sh and, per bundle path, one entry with that
\* name, the content's length as size and the content as bytes.
NamedEntries(a, name) == {i \in 1..Len(a.entries) : a.entries[i].name = name}

ArchiveFaithful(a, files) ==
  /\ Len(a.entries) = Cardinality(DOMAIN files) + 1
  /\ Cardinality(NamedEntries(a, "timer.sh")) = 1
  /\ \A p \in DOMAIN files :
       /\ Cardinality(NamedEntries(a, p)) = 1
       /\ \A i \in NamedEntries(a, p) :
            /\ a.entries[i].size = Len(files[p])
            /\ a.entries[i].data = files[p]
  /\ a.closed

C10_ArchiveHasAllEntries ==
  Issued("CopyToContainer") => ArchiveFaithful(content, sourceFiles)

\* C11: no archive handed to CopyToContainer holds two entries of the same
\* name, and no bundle path produced by loadSourceFiles is timer.sh.
Loaded == loadErr # "none"

C11_NoDuplicateNames ==
  /\ Loaded => "timer.sh" \notin DOMAIN sourceFiles
  /\ Issued("CopyToContainer") =>
        \A i, j \in 1..Len(content.entries) :
           content.entries[i].name = content.entries[j].name => i = j

\* C20: for a tree with F regular files loadSourceFiles returns exactly F
\* entries, one per file with that file's content, and a failing read of a
\* directory or file is reported as an error of the bundle load.
RECURSIVE FilesOf(_, _)
FilesOf(pathname, dir) ==
  UNION {IF dir[i].isDir THEN FilesOf(Append(pathname, dir[i].name), dir[i].sub)
                         ELSE {[path |-> Append(pathname, dir[i].name),
                                name |-> dir[i].name, data |-> dir[i].data]} : i \in 1..Len(dir)}

C20_LoadFaithful ==
  /\ (Loaded /\ loadErr = "nil") =>
        /\ Cardinality(DOMAIN sourceFiles) = Cardinality(FilesOf(SourceRoot, tree))
        /\ \A f \in FilesOf(SourceRoot, tree) :
              f.name \in DOMAIN sourceFiles /\ sourceFiles[f.name] = f.data
  /\ (Loaded /\ loadErr # "nil") => fault = loadErr

\* C12: every ContainerCreate request carries NetworkDisabled = true,
\* Privileged = false, Memory = 10,000,000, no devices, working directory
\* /code and command sh ./timer.sh, whichever provisioning branch ran.
C12_CreateRequestFixed ==
  /\ Len(createReqs) = Count("ContainerCreate")
  /\ \A i \in 1..Len(createReqs) :
       /\ createReqs[i].NetworkDisabled = TRUE
       /\ createReqs[i].Privileged = FALSE
       /\ createReqs[i].Memory = 10000000
       /\ createReqs[i].Devices = <<>>
       /\ createReqs[i].WorkingDir = "/code"
       /\ createReqs[i].Cmd = <<"sh", "./timer.sh">>

C12_Witness ==
  /\ Len(createReqs) = 1
  /\ Count("ImageBuild") = 1
  /\ createReqs[1].Image = BuiltImage

\* C13: when client construction, an ImageList query, ImageBuild or
\* ContainerCreate fails, run() returns that error at once: ContainerRemove
\* is not issued, and ContainerCreate is not issued for the earlier failures.
EarlyErrors == {"errClient", "errList1", "errBuild", "errList2", "errCreate", "errConflict"}

C13_EarlyFailureReturned ==
  fault \in EarlyErrors =>
     /\ pc = "returned"
     /\ ret = fault
     /\ ~RemoveIssued
     /\ ~Created
     /\ fault \notin {"errCreate", "errConflict"} => ~Issued("ContainerCreate")

C13_Witness ==
  /\ pc = "returned"
  /\ fault = "errList2"
  /\ Count("ImageBuild") = 1

\* C14: the runtime calls of one run() are issued in the order ImageList,
\* [ImageBuild, ImageList], ContainerCreate, CopyToContainer, ContainerStart,
\* ContainerWait, ContainerLogs, ContainerRemove; a call other than
\* ContainerRemove is issued only while no step has failed; ContainerLogs
\* only after a result signal without error; on the success path
\* ContainerRemove only after the logs were demultiplexed.
OrderDirect ==
  <<"ImageList", "ContainerCreate", "CopyToContainer", "ContainerStart",
    "ContainerWait", "ContainerLogs">>
OrderWithBuild == <<"ImageList", "ImageBuild">> \o OrderDirect
IsPrefix(a, b) == Len(a) <= Len(b) /\ a = SubSeq(b, 1, Len(a))
NotRemove(c) == c # "ContainerRemove"

C14_Shape ==
  /\ \/ IsPrefix(SelectSeq(calls, NotRemove), OrderDirect)
     \/ IsPrefix(SelectSeq(calls, NotRemove), OrderWithBuild)
  /\ \A i \in 1..Len(calls) :
        calls[i] = "ContainerRemove" => (i = Len(calls) /\ Issued("ContainerCreate"))
  /\ Issued("ContainerLogs") => signal = "resultOk"
  /\ (RemoveIssued /\ retAfter = "nil") => (printed /\ Issued("ContainerLogs"))

C14_Step ==
  (calls' # calls /\ calls'[Len(calls')] # "ContainerRemove") => fault = "none"

C14_CallOrder == []C14_Shape /\ [][C14_Step]_vars

C14_Witness ==
  /\ calls = OrderWithBuild \o <<"ContainerRemove">>
  /\ pc = "returned"
  /\ ret = "nil"

\* C16: under the fairness of LiveSpec every run() eventually returns (nil
\* or an error) or halts in disposal.
C16_ReturnsOrHaltsInDisposal ==
  <>(pc = "returned" \/ (pc = "panicked" /\ panicVal = "errRemove"))

\* C17: run() returns nil only after the full lifecycle: a result signal
\* without error, ContainerLogs and StdCopy succeeded, the output printed,
\* the container removed, and no step failed.
C17_NilOnlyAfterFullLifecycle ==
  (pc = "returned" /\ ret = "nil") =>
     /\ signal = "resultOk"
     /\ Issued("ContainerLogs")
     /\ printed
     /\ Disposed
     /\ fault = "none"

\* C18: in a sequence of invocations no container exists when an invocation
\* starts, and no ContainerCreate fails on the name runner being taken.
C18_NoLeftoverContainer ==
  /\ pc = "client" => containers = {}
  /\ fault # "errConflict"

\* C19: within one run() ContainerRemove is issued at most once, after the
\* ContainerCreate of that run succeeded, and with the ID it returned.
C19_RemoveOnceOwnID ==
  /\ Count("ContainerRemove") <= 1
  /\ Len(removeArgs) = Count("ContainerRemove")
  /\ RemoveIssued =>
        /\ Created
        /\ Issued("ContainerCreate")
        /\ fault \notin {"errCreate", "errConflict"}
        /\ \A i \in 1..Len(removeArgs) : removeArgs[i] = containerID

C19_Witness ==
  /\ pc = "returned"
  /\ removeArgs = <<"c1">>
  /\ containers = {}

\* C15: with two concurrent invocations each submits at most one ImageBuild
\* (C15_AtMostOneBuildEach); the provisioning is not atomic: both first
\* queries can return empty and both invocations submit a build (C15_Witness).
C15_AtMostOneBuildEach ==
  \A p \in Procs :
     /\ inv[p].builds <= 1
     /\ inv[p].builds = 1 => (inv[p].result = <<>> /\ inv[p].pc \notin {"list1", "tar", "build"})

C15_Witness ==
  \A p \in Procs :
     /\ inv[p].pc \in {"list2", "create", "panicked"}
     /\ inv[p].result = <<>>
     /\ inv[p].builds = 1
====
